---------------------------- MODULE Spec2Model ----------------------------
(***************************************************************************)
(* A model of vmapplet's configuration layer (src/vmapplet/options.py) and *)
(* of the internode growth-rate engine (src/vmapplet/organs/internode.py). *)
(*                                                                         *)
(* Python values are records [t, k, s, d]:                                 *)
(*   t  the Python type ("None", "bool", "int", "float", "str",            *)
(*      "datetime", "tuple", "list", "dict", "odict", "group"),            *)
(*   k  the key kind of a dict ("none" when empty, "str", "pair"), or the  *)
(*      class name of a group instance,                                    *)
(*   s  the literal of a scalar,                                           *)
(*   d  the content of a container: a sequence of values (list), a         *)
(*      function from keys to values (dict, odict), a function from field  *)
(*      names to values (group).                                           *)
(* "odict" is a mapping whose type is not exactly dict (an OrderedDict,    *)
(* any other dict subclass or Mapping).                                    *)
(***************************************************************************)
EXTENDS Integers, Sequences, FiniteSets, TLC

VARIABLES
    mk,        \* markov spec: outcome of the last OptionsMarkov(...) call
    mkRaw,     \* markov spec: the terminal_fate argument of that call
    mkOp,      \* markov spec: which call it was
    ov,        \* options specs: the keyword arguments being assembled
    root,      \* options specs: outcome of Options(**ov)
    text,      \* options specs: outcome of root.dumps()
    back,      \* options specs: outcome of Options.loads(text)
    got,       \* options specs: outcome of the last group[key] read
    heap,      \* identity spec: object id -> content
    nextId,    \* identity spec: next unused object id
    roots,     \* identity spec: root name -> (slot -> object id)
    nMut,      \* identity spec: root name -> mutations done through it
    engine,    \* internode spec: the Internode instance
    res,       \* internode spec: the last growth_rate call
    seen       \* internode spec: zone -> first value growth_rate returned

vars == <<mk, mkRaw, mkOp, ov, root, text, back, got,
          heap, nextId, roots, nMut, engine, res, seen>>

markovVars    == <<mk, mkRaw, mkOp>>
optionsVars   == <<ov, root, text, back, got>>
identityVars  == <<heap, nextId, roots, nMut>>
internodeVars == <<engine, res, seen>>

----------------------------------------------------------------------------
(* Python values *)

Empty == <<>>

\* decimal literals of the small positive integers the model uses
Digits == <<"1", "2", "3", "4", "5", "6", "7", "8", "9">>

PyNone        == [t |-> "None", k |-> "", s |-> "", d |-> Empty]
PyBool(x)     == [t |-> "bool", k |-> "", s |-> x, d |-> Empty]
PyInt(x)      == [t |-> "int", k |-> "", s |-> x, d |-> Empty]
PyFloat(x)    == [t |-> "float", k |-> "", s |-> x, d |-> Empty]
PyStr(x)      == [t |-> "str", k |-> "", s |-> x, d |-> Empty]
PyDatetime(x) == [t |-> "datetime", k |-> "", s |-> x, d |-> Empty]
PyList(xs)    == [t |-> "list", k |-> "", s |-> "", d |-> xs]
\* a pair key (year, label) read as a value, as iterating a dict yields it
PyTuple(p)    == [t |-> "tuple", k |-> "", s |-> "", d |-> <<PyInt(Digits[p[1]]), PyStr(p[2])>>]

EmptyDict == [t |-> "dict", k |-> "none", s |-> "", d |-> Empty]
PyDict(kind, f) ==
    IF DOMAIN f = {} THEN EmptyDict
    ELSE [t |-> "dict", k |-> kind, s |-> "", d |-> f]
\* a mapping that is not an instance of exactly dict
PyODict(f) == [t |-> "odict", k |-> "str", s |-> "", d |-> f]
PyGroup(cls, f) == [t |-> "group", k |-> cls, s |-> "", d |-> f]

\* Python's ==, guarded so that contents of different kinds are never compared
PyEq(a, b) == a.t = b.t /\ a.k = b.k /\ a.s = b.s /\ a.d = b.d

\* the outcome of a call: a returned value, or a raised exception
Return(v) == [ok |-> TRUE, v |-> v, err |-> ""]
Raise(e)  == [ok |-> FALSE, v |-> PyNone, err |-> e]
NoCall    == [ok |-> FALSE, v |-> PyNone, err |-> "not called"]

\* f with key x bound to v (a dict store, d[x] = v)
Store(f, x, v) == [y \in DOMAIN f \cup {x} |-> IF y = x THEN v ELSE f[y]]


----------------------------------------------------------------------------
(* The parameter groups: each class's fields and their declared defaults *)

EventDate(day, month, duration) ==
    PyDict("str", [day |-> PyInt(day), month |-> PyInt(month),
                   duration |-> PyInt(duration)])

OptionsGeneral ==
    [date_start |-> PyDatetime("1994-01-01T00:00:00"),
     date_end |-> PyDatetime("1998-06-30T00:00:00"),
     seed |-> PyInt("1163078255"),
     second_year_draws |-> PyBool("True"),
     ruptures |-> PyBool("False"),
     stake |-> PyBool("True"),
     select_trunk |-> PyInt("0"),
     mechanics |-> PyBool("True"),
     render_mode |-> PyStr("bark"),
     stride_number |-> PyInt("5"),
     pruning |-> PyBool("False"),
     convergence_steps |-> PyInt("2")]

OptionsOutput ==
    [sequences |-> PyBool("False"),
     l_string |-> PyBool("False"),
     light_interception |-> PyBool("False"),
     counts |-> PyBool("False"),
     trunk |-> PyBool("False"),
     leaves |-> PyBool("True"),
     mtg |-> PyBool("False"),
     shoots |-> PyBool("False")]

OptionsInput ==
    [lpy_files |-> EmptyDict,
     lpy_path |-> PyStr("<package>/lpy")]

OptionsEvents ==
    [bud_break |-> EventDate("15", "5", "1"),
     new_cambial_layer |-> EventDate("15", "5", "1"),
     pre_harvest |-> EventDate("29", "10", "1"),
     harvest |-> EventDate("30", "10", "1"),
     autumn |-> EventDate("1", "11", "45"),
     leaf_fall |-> EventDate("15", "11", "45"),
     leaf_out |-> EventDate("25", "12", "1")]

OptionsTree ==
    [phyllotactic_angle |-> PyFloat("-144.0"),
     branching_angle |-> PyFloat("45.0"),
     floral_angle |-> PyFloat("-10.0"),
     tropism |-> PyFloat("0.1"),
     preformed_leaves |-> PyInt("8"),
     spur_death_probability |-> PyFloat("0.3"),
     inflorescence_death_probability |-> PyFloat("0.2")]

OptionsWood ==
    [wood_density |-> PyInt("1000"),
     reaction_wood_rate |-> PyFloat("0.5"),
     reaction_wood_inertia_coefficient |-> PyFloat("0.1"),
     youngs_modulus |-> PyFloat("1.1"),
     modulus_of_rupture |-> PyFloat("50000000.0")]

OptionsInternode ==
    [min_length |-> PyFloat("0.0001"),
     elongation_period |-> PyFloat("10.0"),
     plastochron |-> PyFloat("3.0"),
     max_length |-> PyFloat("0.03")]

OptionsApex ==
    [terminal_expansion_rate |-> PyFloat("2e-05"),
     minimum_size |-> PyFloat("0.00075"),
     maximum_size |-> PyFloat("0.003")]

OptionsMarkov ==
    [maximum_length |-> PyInt("70"),
     minimum_length |-> PyInt("4"),
     terminal_fate |-> EmptyDict]

OptionsFruit ==
    [flower_duration |-> PyFloat("10.0"),
     max_relative_growth_rate |-> PyFloat("0.167"),
     lost_time |-> PyInt("28"),
     max_age |-> PyInt("147"),
     probability |-> PyFloat("0.3"),
     max_absolute_growth_rate |-> PyFloat("0.0018")]

OptionsLeaf ==
    [fall_probability |-> PyFloat("0.1"),
     maturation |-> PyInt("12"),
     mass_per_area |-> PyFloat("0.22"),
     max_area |-> PyFloat("0.003"),
     min_final_area |-> PyFloat("0.002"),
     petiole_radius |-> PyFloat("0.0006"),
     preformed_leaves |-> PyInt("8")]

\* the eleven attributes of Options, in declaration order
GroupNames ==
    <<"general", "input", "output", "events", "tree", "wood", "internode",
      "apex", "markov", "fruit", "leaf">>

Groups == {GroupNames[i] : i \in DOMAIN GroupNames}

\* the field defaults of the class behind attribute g
Defaults(g) ==
    CASE g = "general" -> OptionsGeneral
      [] g = "input" -> OptionsInput
      [] g = "output" -> OptionsOutput
      [] g = "events" -> OptionsEvents
      [] g = "tree" -> OptionsTree
      [] g = "wood" -> OptionsWood
      [] g = "internode" -> OptionsInternode
      [] g = "apex" -> OptionsApex
      [] g = "markov" -> OptionsMarkov
      [] g = "fruit" -> OptionsFruit
      [] g = "leaf" -> OptionsLeaf

FieldsOf(g) == DOMAIN Defaults(g)

----------------------------------------------------------------------------
(* OptionsMarkov.__post_init__: the fate table normalization *)

\* whether v.items() exists: dicts, other mappings, and the groups (OptionsBase
\* is a Mapping); on anything else the call raises AttributeError
HasItems(v) == v.t \in {"dict", "odict", "group"}

RECURSIVE KeysAsValues(_, _)
\* the keys of a mapping, each as the value the iteration yields
KeysAsValues(v, keys) ==
    IF keys = {} THEN <<>>
    ELSE LET key == CHOOSE x \in keys : TRUE
         IN  <<IF v.k = "pair" THEN PyTuple(key) ELSE PyStr(key)>>
             \o KeysAsValues(v, keys \ {key})

\* what enumerate(v) walks over: the items of a list, the keys of a mapping,
\* the characters of a str (each a str: one stands for them all); anything
\* else is not iterable (TypeError)
Iterate(v) ==
    CASE v.t \in {"list", "tuple"} -> Return(PyList(v.d))
      [] v.t \in {"dict", "odict", "group"} ->
            Return(PyList(KeysAsValues(v, DOMAIN v.d)))
      [] v.t = "str" ->
            Return(PyList(IF v.s = "" THEN <<>> ELSE <<PyStr(v.s)>>))
      [] OTHER -> Raise("TypeError")

\* the key built for position i (0-based) and label key
FateKeyZeroBased(i, key) == <<i, key>>
FateKey(i, key) == <<i + 1, key>>

RECURSIVE ItemsLoop(_, _, _, _)
\* for key, val in item.items(): fate[(i + 1, key)] = val
ItemsLoop(item, keys, i, fate) ==
    IF keys = {} THEN fate
    ELSE LET key == CHOOSE x \in keys : TRUE
         IN  ItemsLoop(item, keys \ {key}, i,
                       Store(fate, FateKey(i, key), item.d[key]))

RECURSIVE EnumerateLoop(_, _, _)
\* for i, item in enumerate(...): the loop from position i on
EnumerateLoop(items, i, fate) ==
    IF i >= Len(items) THEN Return(PyDict("pair", fate))
    ELSE LET item == items[i + 1]
         IN  IF ~HasItems(item) THEN Raise("AttributeError")
             ELSE EnumerateLoop(items, i + 1,
                                ItemsLoop(item, DOMAIN item.d, i, fate))

\* a __post_init__ that leaves an already normalized dict alone
MarkovPostInitIdempotent(fields) ==
    LET tf == fields.terminal_fate
    IN  IF tf.t = "None" \/ tf.t = "dict" THEN Return(PyGroup("markov", fields))
        ELSE LET it == Iterate(tf)
             IN  IF ~it.ok THEN it
                 ELSE LET r == EnumerateLoop(it.v.d, 0, Empty)
                      IN  IF ~r.ok THEN r
                          ELSE Return(PyGroup("markov",
                                   [fields EXCEPT !.terminal_fate = r.v]))

\* OptionsMarkov.__post_init__ on the fields __init__ has set
MarkovPostInit(fields) ==
    LET tf == fields.terminal_fate
    IN  IF tf.t = "None"
        THEN Return(PyGroup("markov", [fields EXCEPT !.terminal_fate = PyNone]))
        ELSE LET it == Iterate(tf)
             IN  IF ~it.ok THEN it
                 ELSE LET r == EnumerateLoop(it.v.d, 0, Empty)
                      IN  IF ~r.ok THEN r
                          ELSE Return(PyGroup("markov",
                                   [fields EXCEPT !.terminal_fate = r.v]))

\* cls(**kwargs) for the class behind attribute g: the generated __init__
\* rejects unknown keywords, fills the others from the declared defaults
\* (default factories run per call), then runs __post_init__
DataclassNew(g, kwargs) ==
    IF ~(DOMAIN kwargs \subseteq FieldsOf(g)) THEN Raise("TypeError")
    ELSE LET fields == [n \in FieldsOf(g) |->
                            IF n \in DOMAIN kwargs THEN kwargs[n]
                            ELSE Defaults(g)[n]]
         IN  IF g = "markov" THEN MarkovPostInit(fields)
             ELSE Return(PyGroup(g, fields))

----------------------------------------------------------------------------
(* The fate tables the markov group is constructed with *)

MaxYears == 2

Labels == {"A", "B"}

IntList12 == PyList(<<PyInt("1"), PyInt("2")>>)
IntList3  == PyList(<<PyInt("3")>>)

\* values of a well-shaped entry, and values of the wrong shape
GoodFateValues == {IntList12, IntList3}
BadFateValues  == {PyStr("x"), PyList(<<PyStr("a")>>)}

\* a position's entry: a label -> value dict, or something that is no mapping
MappingEntries ==
    UNION {{PyDict("str", f) : f \in [L -> GoodFateValues \cup BadFateValues]}
           : L \in SUBSET Labels}
NonMappingEntries == {IntList3, PyInt("7")}
Entries == MappingEntries \cup NonMappingEntries

SeqsUpTo(S, n) == UNION {[1..m -> S] : m \in 0..n}

RawFates ==
    {PyNone, PyInt("5")} \cup {PyList(xs) : xs \in SeqsUpTo(Entries, MaxYears)}

\* a list of ints
IsIntList(v) ==
    v.t = "list" /\ \A j \in DOMAIN v.d : v.d[j].t = "int"

\* the documented raw shape: absent, or a sequence of label -> int-list mappings
WellShaped(raw) ==
    \/ raw.t = "None"
    \/ /\ raw.t = "list"
       /\ \A j \in DOMAIN raw.d :
             /\ raw.d[j].t = "dict"
             /\ \A l \in DOMAIN raw.d[j].d : IsIntList(raw.d[j].d[l])

----------------------------------------------------------------------------
(* Specification SpecMarkov: constructing the markov group *)

\* no read yet
NoRead == [g |-> "", key |-> "", out |-> NoCall]

OptionsIdle ==
    /\ ov = Empty /\ root = NoCall /\ text = NoCall /\ back = NoCall
    /\ got = NoRead
IdentityIdle ==
    /\ heap = Empty /\ nextId = 0 /\ roots = Empty /\ nMut = Empty
InternodeIdle ==
    /\ engine = Empty /\ res = Empty /\ seen = Empty
MarkovIdle ==
    /\ mk = NoCall /\ mkRaw = PyNone /\ mkOp = "none"

\* OptionsMarkov(terminal_fate=raw)
MarkovConstruct ==
    \E raw \in RawFates :
        /\ mkOp = "none"
        /\ mkOp' = "construct"
        /\ mkRaw' = raw
        /\ mk' = DataclassNew("markov", [terminal_fate |-> raw])
        /\ UNCHANGED <<optionsVars, identityVars, internodeVars>>

\* OptionsMarkov(): terminal_fate comes from its default factory
MarkovDefault ==
    /\ mkOp = "none"
    /\ mkOp' = "default"
    /\ mkRaw' = Defaults("markov").terminal_fate
    /\ mk' = DataclassNew("markov", Empty)
    /\ UNCHANGED <<optionsVars, identityVars, internodeVars>>

\* OptionsMarkov(terminal_fate=m.terminal_fate) for a constructed group m:
\* the normalization run on its own output
MarkovReplay ==
    /\ mk.ok
    /\ mkOp \in {"construct", "default"}
    /\ mkOp' = "replay"
    /\ mkRaw' = mk.v.d.terminal_fate
    /\ mk' = DataclassNew("markov", [terminal_fate |-> mk.v.d.terminal_fate])
    /\ UNCHANGED <<optionsVars, identityVars, internodeVars>>

InitMarkov == MarkovIdle /\ OptionsIdle /\ IdentityIdle /\ InternodeIdle

NextMarkov == MarkovConstruct \/ MarkovDefault \/ MarkovReplay

SpecMarkov == InitMarkov /\ [][NextMarkov]_vars

\* the table normalize(raw) is documented to be, for a sequence of mappings
ExpectedFateKeys(raw) ==
    {<<j, l>> : j \in DOMAIN raw.d, l \in Labels} \cap
    {p \in (DOMAIN raw.d) \X Labels : p[2] \in DOMAIN raw.d[p[1]].d}

\* raw is a sequence of label -> list mappings
IsSeqOfListMappings(raw) ==
    /\ raw.t = "list"
    /\ \A j \in DOMAIN raw.d :
          /\ raw.d[j].t = "dict"
          /\ \A l \in DOMAIN raw.d[j].d : raw.d[j].d[l].t = "list"

\* C1: constructing the markov group with raw fate table raw leaves
\* terminal_fate = normalize(raw): None for None; for a sequence of
\* label -> list mappings exactly one key (i+1, label) per label of entry i,
\* bound to raw[i][label], years starting at 1 and none beyond len(raw).
C1_NormalizeContract ==
    mkOp = "construct" =>
        /\ mkRaw.t = "None" => mk.ok /\ mk.v.d.terminal_fate = PyNone
        /\ IsSeqOfListMappings(mkRaw) =>
              /\ mk.ok
              /\ mk.v.d.terminal_fate.t = "dict"
              /\ DOMAIN mk.v.d.terminal_fate.d = ExpectedFateKeys(mkRaw)
              /\ \A p \in ExpectedFateKeys(mkRaw) :
                    /\ p[1] >= 1 /\ p[1] <= Len(mkRaw.d)
                    /\ mk.v.d.terminal_fate.d[p] = mkRaw.d[p[1]].d[p[2]]

\* the documented example [{"A": [1,2]}, {"A": [3], "B": [3]}] was normalized
C1_Witness ==
    /\ mkOp = "construct"
    /\ mkRaw = PyList(<<PyDict("str", [A |-> IntList12]),
                        PyDict("str", [A |-> IntList3, B |-> IntList3])>>)
    /\ mk.ok
    /\ DOMAIN mk.v.d.terminal_fate.d = {<<1, "A">>, <<2, "A">>, <<2, "B">>}

\* C8: the normalization raises, and yields no table, whenever the raw input
\* has the wrong shape (an entry that is no label -> list mapping, or a value
\* that is no sequence of integers).
C8_MalformedRaises ==
    (mkOp = "construct" /\ ~WellShaped(mkRaw)) => ~mk.ok

\* C9 as stated: replaying the normalization on any normalized table, the
\* empty one included, fails.
C9_ReplayAlwaysFails ==
    (mkOp = "replay" /\ mkRaw.t = "dict") => ~mk.ok

\* C9 amended: replaying the normalization on a non-empty normalized table
\* fails; on the empty table it returns the empty table, and an absent table
\* stays absent.
C9_ReplayFailsUnlessEmpty ==
    mkOp = "replay" =>
        IF mkRaw.t = "dict" /\ mkRaw.k = "pair"
        THEN ~mk.ok
        ELSE mk.ok /\ PyEq(mk.v.d.terminal_fate, mkRaw)
                   /\ (mkRaw = EmptyDict \/ mkRaw = PyNone)

\* a replay on a non-empty normalized table has failed
C9_Witness ==
    /\ mkOp = "replay"
    /\ mkRaw.t = "dict" /\ mkRaw.k = "pair"
    /\ <<2, "B">> \in DOMAIN mkRaw.d
    /\ ~mk.ok

----------------------------------------------------------------------------
(* Options: construction, export *)

\* a _make_dataclass that leaves every argument as it is
MakeDataclassKeep(g, x) == Return(x)

\* _make_dataclass(cls, data_or_cls): cls(**x) when type(x) is dict, else x
MakeDataclass(g, x) ==
    IF x.t = "dict" THEN DataclassNew(g, x.d) ELSE Return(x)

\* the first attribute, in declaration order from position i, whose coercion
\* raised; 0 when none did
RECURSIVE FirstFailure(_, _)
FirstFailure(made, i) ==
    IF i > Len(GroupNames) THEN 0
    ELSE IF ~made[GroupNames[i]].ok THEN i
    ELSE FirstFailure(made, i + 1)

\* Options(**kwargs): the generated __init__ (an absent attribute takes
\* its default factory's fresh all-defaults group), then __post_init__
OptionsNew(kwargs) ==
    IF ~(DOMAIN kwargs \subseteq Groups) THEN Raise("TypeError")
    ELSE LET init == [g \in Groups |->
                         IF g \in DOMAIN kwargs THEN kwargs[g]
                         ELSE DataclassNew(g, Empty).v]
             made == [g \in Groups |-> MakeDataclass(g, init[g])]
             bad  == FirstFailure(made, 1)
         IN  IF bad # 0 THEN made[GroupNames[bad]]
             ELSE Return(PyGroup("Options", [g \in Groups |-> made[g].v]))

RECURSIVE AsDictInner(_)
\* dataclasses.asdict: a dataclass instance becomes a dict of its fields, a
\* list or a mapping keeps its type, each with its content converted
AsDictInner(v) ==
    CASE v.t = "group" ->
            PyDict("str", [f \in DOMAIN v.d |-> AsDictInner(v.d[f])])
      [] v.t \in {"dict", "odict", "list"} ->
            [v EXCEPT !.d = [x \in DOMAIN v.d |-> AsDictInner(v.d[x])]]
      [] OTHER -> v

\* OptionsBase.__getitem__
GetItemDefault(self, key) ==
    LET m == AsDictInner(self)
    IN  IF key \in DOMAIN m.d THEN Return(m.d[key])
        ELSE Return(PyNone)
GetItem(self, key) ==
    LET m == AsDictInner(self)
    IN  IF key \in DOMAIN m.d THEN Return(m.d[key])
        ELSE Raise("KeyError")

----------------------------------------------------------------------------
(* The keyword arguments Options is constructed with *)

MaxOverrides == 2

\* a value of the field's type that differs from the declared default
OtherValue(v) ==
    CASE v.t = "bool" -> PyBool(IF v.s = "True" THEN "False" ELSE "True")
      [] v.t = "int" -> PyInt("42")
      [] v.t = "float" -> PyFloat("0.125")
      [] v.t = "str" -> PyStr("zones")
      [] v.t = "datetime" -> PyDatetime("2000-02-29T00:00:00")
      [] v.t = "dict" -> PyDict("str", [day |-> PyInt("1")])

\* the raw fate tables an override carries
OverrideFates ==
    {PyNone,
     PyList(<<>>),
     PyList(<<PyDict("str", [A |-> IntList12])>>),
     PyList(<<PyDict("str", [A |-> IntList12]),
              PyDict("str", [A |-> IntList3, B |-> IntList3])>>),
     PyList(<<PyDict("str", [A |-> PyStr("x")])>>),
     PyList(<<PyInt("7")>>)}

OverrideValues(g, f) ==
    IF g = "markov" /\ f = "terminal_fate" THEN OverrideFates
    ELSE IF f \in FieldsOf(g) THEN {OtherValue(Defaults(g)[f])}
    ELSE {PyInt("42")}

\* a keyword no class declares
UnknownField == "bogus"

\* the number of assembly steps behind ov: one per field, one per change of
\* an entry's type
Steps(o) ==
    LET n[S \in SUBSET Groups] ==
            IF S = {} THEN 0
            ELSE LET g == CHOOSE x \in S : TRUE
                 IN  n[S \ {g}]
                     + (IF o[g].t = "dict" THEN 0 ELSE 1)
                     + Cardinality(IF o[g].t = "group"
                                   THEN {f \in DOMAIN o[g].d :
                                            o[g].d[f] # Defaults(g)[f]}
                                   ELSE DOMAIN o[g].d)
    IN  n[DOMAIN o]

\* the caller puts field f = v into the raw mapping for attribute g
OverrideField ==
    /\ root = NoCall
    /\ Steps(ov) < MaxOverrides
    /\ \E g \in Groups :
         \E f \in FieldsOf(g) \cup {UnknownField} :
           \E v \in OverrideValues(g, f) :
               /\ g \in DOMAIN ov =>
                     ov[g].t = "dict" /\ f \notin DOMAIN ov[g].d
               /\ ov' = Store(ov, g,
                              PyDict("str",
                                     Store(IF g \in DOMAIN ov THEN ov[g].d
                                           ELSE Empty, f, v)))
    /\ UNCHANGED <<root, text, back, got>>
    /\ UNCHANGED <<markovVars, identityVars, internodeVars>>

\* the caller supplies attribute g's mapping as a mapping that is not exactly
\* a dict (collections.OrderedDict(m))
OverrideAsMapping ==
    /\ root = NoCall
    /\ Steps(ov) < MaxOverrides
    /\ \E g \in DOMAIN ov :
         /\ ov[g].t = "dict"
         /\ ov' = [ov EXCEPT ![g] = PyODict(ov[g].d)]
    /\ UNCHANGED <<root, text, back, got>>
    /\ UNCHANGED <<markovVars, identityVars, internodeVars>>

\* the caller supplies attribute g as a ready-made instance, cls(**m)
OverrideAsInstance ==
    /\ root = NoCall
    /\ Steps(ov) < MaxOverrides
    /\ \E g \in DOMAIN ov :
         /\ ov[g].t = "dict"
         /\ DataclassNew(g, ov[g].d).ok
         /\ ov' = [ov EXCEPT ![g] = DataclassNew(g, ov[g].d).v]
    /\ UNCHANGED <<root, text, back, got>>
    /\ UNCHANGED <<markovVars, identityVars, internodeVars>>

\* Options(**ov)
OptionsConstruct ==
    /\ root = NoCall
    /\ root' = OptionsNew(ov)
    /\ UNCHANGED <<ov, text, back, got>>
    /\ UNCHANGED <<markovVars, identityVars, internodeVars>>

InitOptions == MarkovIdle /\ OptionsIdle /\ IdentityIdle /\ InternodeIdle

NextOptions ==
    \/ OverrideField
    \/ OverrideAsMapping
    \/ OverrideAsInstance
    \/ OptionsConstruct

SpecOptions == InitOptions /\ [][NextOptions]_vars


\* root.export(): the nested plain mapping of a constructed root
Export(r) == AsDictInner(r)

\* every entry of the keyword arguments is a plain dict or a group instance
PlainEntries(o) == \A g \in DOMAIN o : o[g].t \in {"dict", "group"}

\* the declared defaults of attribute g merged with what o supplies for it
MergedOverrides(o, g) ==
    IF g \notin DOMAIN o THEN Defaults(g)
    ELSE [f \in FieldsOf(g) |->
            IF f \in DOMAIN o[g].d THEN o[g].d[f] ELSE Defaults(g)[f]]

\* normalize(raw) as documented
ExpectedFate(raw) ==
    IF raw.t = "None" THEN PyNone
    ELSE PyDict("pair", [p \in ExpectedFateKeys(raw) |-> raw.d[p[1]].d[p[2]]])

\* the merge, with a raw fate table supplied in a mapping normalized
MergedNormalized(o, g) ==
    IF g = "markov" /\ g \in DOMAIN o /\ o[g].t = "dict"
       /\ "terminal_fate" \in DOMAIN o[g].d
    THEN [MergedOverrides(o, g) EXCEPT
             !.terminal_fate = ExpectedFate(o[g].d.terminal_fate)]
    ELSE MergedOverrides(o, g)

\* the exported fields of attribute g are exactly those of m
ExportsAs(r, g, m) ==
    LET e == Export(r).d[g]
    IN  /\ e.t = "dict"
        /\ DOMAIN e.d = DOMAIN m
        /\ \A f \in DOMAIN m : PyEq(e.d[f], m[f])

\* a normalized table whose values are all lists of ints, or an absent one
WellShapedNormalized(v) ==
    \/ v.t = "None"
    \/ v.t = "dict" /\ \A p \in DOMAIN v.d : IsIntList(v.d[p])

\* valid partial override mappings: plain dicts or group instances, declared
\* field names only, a fate table of the documented shape
ValidOverrides(o) ==
    /\ PlainEntries(o)
    /\ \A g \in DOMAIN o : DOMAIN o[g].d \subseteq FieldsOf(g)
    /\ ("markov" \in DOMAIN o /\ "terminal_fate" \in DOMAIN o["markov"].d) =>
          IF o["markov"].t = "dict"
          THEN WellShaped(o["markov"].d.terminal_fate)
          ELSE WellShapedNormalized(o["markov"].d.terminal_fate)

\* C2: after construction every one of the eleven attributes is a group
\* instance of the matching type, never a raw mapping.
C2_AllGroupsCoerced ==
    root.ok => \A g \in Groups : root.v.d[g].t = "group" /\ root.v.d[g].k = g

\* C3 as stated: the export equals the defaults merged with the overrides,
\* field by field, every overridden field exporting the supplied value.
C3_ExportIsMerge ==
    (root.ok /\ ValidOverrides(ov)) =>
        \A g \in Groups : ExportsAs(root.v, g, MergedOverrides(ov, g))

\* C3 amended: for entries that are plain dicts or group instances, the export
\* equals the defaults merged with the overrides, field by field, except that
\* a raw terminal_fate supplied for markov exports as normalize(raw).
C3_ExportIsMergeNormalized ==
    (root.ok /\ PlainEntries(ov)) =>
        \A g \in Groups : ExportsAs(root.v, g, MergedNormalized(ov, g))

\* a root built from a raw two-year fate table and one more override
C3_Witness ==
    /\ root.ok
    /\ DOMAIN ov = {"markov", "general"}
    /\ ov["markov"].t = "dict" /\ ov["general"].t = "dict"
    /\ "seed" \in DOMAIN ov["general"].d
    /\ "terminal_fate" \in DOMAIN ov["markov"].d
    /\ ov["markov"].d.terminal_fate.t = "list"
    /\ Len(ov["markov"].d.terminal_fate.d) = 2
    /\ Export(root.v).d["general"].d.seed = PyInt("42")
    /\ <<2, "B">> \in DOMAIN Export(root.v).d["markov"].d.terminal_fate.d

----------------------------------------------------------------------------
(* Options.dumps and Options.loads: the TOML text *)

\* A TOML document is modelled by its parse tree: tables [t |-> "table"],
\* arrays [t |-> "array"] and literals [t |-> "lit", k |-> TOML type,
\* s |-> text].
TomlLit(type, txt) == [t |-> "lit", k |-> type, s |-> txt, d |-> Empty]

\* str(key) of a (year, label) key
StrOfPair(p) == "(" \o Digits[p[1]] \o ", '" \o p[2] \o "')"

RECURSIVE HasNonStrKeys(_)
\* some mapping inside v has keys that are not strings
HasNonStrKeys(v) ==
    /\ v.t \in {"dict", "odict", "list"}
    /\ \/ v.t = "dict" /\ v.k = "pair"
       \/ \E x \in DOMAIN v.d : HasNonStrKeys(v.d[x])

RECURSIVE TomlEncode(_)
\* the encoder: a mapping becomes a table that leaves out None values and
\* writes each key as str(key); a list an array; a scalar its literal
TomlEncode(v) ==
    CASE v.t \in {"dict", "odict"} ->
            LET keys == {x \in DOMAIN v.d : v.d[x].t # "None"}
                name(x) == IF v.k = "pair" THEN StrOfPair(x) ELSE x
            IN  [t |-> "table", k |-> "", s |-> "",
                 d |-> [n \in {name(x) : x \in keys} |->
                           TomlEncode(v.d[CHOOSE x \in keys : name(x) = n])]]
      [] v.t = "list" ->
            [t |-> "array", k |-> "", s |-> "",
             d |-> [j \in DOMAIN v.d |-> TomlEncode(v.d[j])]]
      [] v.t = "bool" ->
            TomlLit("boolean", IF v.s = "True" THEN "true" ELSE "false")
      [] v.t = "int" -> TomlLit("integer", v.s)
      [] v.t = "float" -> TomlLit("float", v.s)
      [] v.t = "str" -> TomlLit("string", v.s)
      [] v.t = "datetime" -> TomlLit("datetime", v.s)

\* toml.dumps(m). The library is not part of the repository; on a mapping
\* with keys that are not strings it either raises or writes str(key),
\* depending on its version: mode picks which
TomlDumps(m, mode) ==
    IF mode = "raise" /\ HasNonStrKeys(m) THEN Raise("KeyError")
    ELSE Return(TomlEncode(m))

RECURSIVE TomlDecode(_)
\* toml.loads: tables come back as plain dicts with str keys
TomlDecode(x) ==
    CASE x.t = "table" ->
            PyDict("str", [n \in DOMAIN x.d |-> TomlDecode(x.d[n])])
      [] x.t = "array" -> PyList([j \in DOMAIN x.d |-> TomlDecode(x.d[j])])
      [] x.k = "boolean" -> PyBool(IF x.s = "true" THEN "True" ELSE "False")
      [] x.k = "integer" -> PyInt(x.s)
      [] x.k = "float" -> PyFloat(x.s)
      [] x.k = "string" -> PyStr(x.s)
      [] x.k = "datetime" -> PyDatetime(x.s)

\* Options.dumps: toml.dumps(dc.asdict(self))
OptionsDumps ==
    \E mode \in {"raise", "stringify"} :
        /\ root.ok
        /\ text = NoCall
        /\ text' = TomlDumps(AsDictInner(root.v), mode)
        /\ UNCHANGED <<ov, root, back, got>>
        /\ UNCHANGED <<markovVars, identityVars, internodeVars>>

\* Options.loads(text): Options(**toml.loads(text)); when dumps raised, the
\* exception is the outcome of loads(dumps(root))
OptionsLoads ==
    /\ text # NoCall
    /\ back = NoCall
    /\ back' = IF text.ok THEN OptionsNew(TomlDecode(text.v).d) ELSE text
    /\ UNCHANGED <<ov, root, text, got>>
    /\ UNCHANGED <<markovVars, identityVars, internodeVars>>

InitRoundTrip == MarkovIdle /\ OptionsIdle /\ IdentityIdle /\ InternodeIdle

NextRoundTrip ==
    \/ OverrideField
    \/ OverrideAsMapping
    \/ OverrideAsInstance
    \/ OptionsConstruct
    \/ OptionsDumps
    \/ OptionsLoads

SpecRoundTrip == InitRoundTrip /\ [][NextRoundTrip]_vars

IsScalar(v) == v.t \in {"bool", "int", "float", "str", "datetime"}

\* every scalar field of root a has the same value in root b
SameScalars(a, b) ==
    \A g \in Groups :
        \A f \in FieldsOf(g) :
            IsScalar(a.d[g].d[f]) =>
                /\ b.d[g].t = "group"
                /\ PyEq(b.d[g].d[f], a.d[g].d[f])

\* C4: for every constructed root, with an empty or a non-empty normalized
\* fate table, loads(dumps(root)) succeeds and reproduces every scalar field.
C4_RoundTrip ==
    (back # NoCall /\ ValidOverrides(ov)) =>
        back.ok /\ SameScalars(root.v, back.v)

----------------------------------------------------------------------------
(* Specification SpecAccess: reading the groups of a root by field name *)

MaxSets == 1

\* the fields of the root's groups that differ from their declared defaults
Changed(r) ==
    {p \in Groups \X UNION {FieldsOf(g) : g \in Groups} :
        p[2] \in FieldsOf(p[1]) /\ r.d[p[1]].d[p[2]] # Defaults(p[1])[p[2]]}

\* values an attribute is assigned after construction
AssignedValues(g, f) ==
    IF g = "markov" /\ f = "terminal_fate"
    THEN {PyNone, PyDict("pair", [p \in {<<1, "A">>} |-> IntList12])}
    ELSE {OtherValue(Defaults(g)[f])}

\* Options(): the all-defaults root
AccessConstruct ==
    /\ root = NoCall
    /\ root' = OptionsNew(Empty)
    /\ UNCHANGED <<ov, text, back, got>>
    /\ UNCHANGED <<markovVars, identityVars, internodeVars>>

\* root.<g>.<f> = v: the groups are not frozen
SetField ==
    /\ root.ok
    /\ got = NoRead
    /\ Cardinality(Changed(root.v)) < MaxSets
    /\ \E g \in Groups :
         \E f \in FieldsOf(g) :
           \E v \in AssignedValues(g, f) :
               root' = [root EXCEPT !.v.d[g].d[f] = v]
    /\ UNCHANGED <<ov, text, back, got>>
    /\ UNCHANGED <<markovVars, identityVars, internodeVars>>

\* names read from a group: its own fields, a name no group declares, and
\* names other groups declare
KeysRead(g) == FieldsOf(g) \cup {UnknownField, "seed", "terminal_fate"}

\* root.<g>[key]
ReadField ==
    /\ root.ok
    /\ got = NoRead
    /\ \E g \in Groups :
         \E key \in KeysRead(g) :
           got' = [g |-> g, key |-> key, out |-> GetItem(root.v.d[g], key)]
    /\ UNCHANGED <<ov, root, text, back>>
    /\ UNCHANGED <<markovVars, identityVars, internodeVars>>

InitAccess == MarkovIdle /\ OptionsIdle /\ IdentityIdle /\ InternodeIdle

NextAccess == AccessConstruct \/ SetField \/ ReadField

SpecAccess == InitAccess /\ [][NextAccess]_vars

\* C5: reading a group by a name its schema does not declare raises (the
\* mapping lookup's KeyError is the unknown-field error) and returns nothing;
\* reading a declared name returns the field's current value.
C5_UnknownFieldRaises ==
    got # NoRead =>
        IF got.key \in FieldsOf(got.g)
        THEN got.out.ok /\ PyEq(got.out.v, root.v.d[got.g].d[got.key])
        ELSE ~got.out.ok /\ got.out.err = "KeyError"

\* a name another group declares was read from a group with a changed field
C5_Witness ==
    /\ got.g = "general" /\ got.key = "terminal_fate"
    /\ ~got.out.ok
    /\ root.v.d["general"].d.seed = PyInt("42")

----------------------------------------------------------------------------
(* Specification SpecIdentity: the objects behind all-defaults roots *)

MaxMutations == 2

RootNames == {"a", "b"}

\* The mutable objects an all-defaults root holds: a slot <<g, "">> is the
\* group instance of attribute g, a slot <<g, f>> the dict in its field f.
Slots ==
    {<<g, "">> : g \in Groups} \cup
    {p \in Groups \X UNION {FieldsOf(g) : g \in Groups} :
        p[2] \in FieldsOf(p[1]) /\ Defaults(p[1])[p[2]].t = "dict"}

RECURSIVE SlotSeq(_)
\* the slots in a fixed order of creation
SlotSeq(S) ==
    IF S = {} THEN <<>>
    ELSE LET x == CHOOSE y \in S : TRUE IN <<x>> \o SlotSeq(S \ {x})

SlotOrder == SlotSeq(Slots)

SlotIndex(slot) == CHOOSE i \in DOMAIN SlotOrder : SlotOrder[i] = slot

\* what a freshly made object of a slot holds: a group instance its scalar
\* fields, a dict its items
DefaultContent(slot) ==
    IF slot[2] = ""
    THEN [f \in {x \in FieldsOf(slot[1]) : IsScalar(Defaults(slot[1])[x])} |->
              Defaults(slot[1])[f]]
    ELSE Defaults(slot[1])[slot[2]].d

\* one object kept at class level and handed to every instance
SharedObject(slot, next) == SlotIndex(slot)

\* dc.field(default_factory=lambda: ...), and fate = {} in __post_init__:
\* the object of the slot is made anew, with the next unused identity
FreshObject(slot, next) == next + SlotIndex(slot)

\* Options(): every default factory runs
IdentityConstruct ==
    \E r \in RootNames \ DOMAIN roots :
        LET ids == [slot \in Slots |-> FreshObject(slot, nextId)]
            new == {ids[slot] : slot \in Slots}
        IN  /\ roots' = Store(roots, r, ids)
            /\ heap' = [i \in DOMAIN heap \cup new |->
                           IF i \in DOMAIN heap THEN heap[i]
                           ELSE DefaultContent(CHOOSE slot \in Slots :
                                                   ids[slot] = i)]
            /\ nextId' = nextId + Cardinality(Slots)
            /\ nMut' = Store(nMut, r, 0)
            /\ UNCHANGED <<markovVars, optionsVars, internodeVars>>

\* the attribute of each group instance that callers assign
StoredField ==
    [general |-> "seed", input |-> "lpy_path", output |-> "leaves",
     tree |-> "tropism", wood |-> "wood_density", internode |-> "max_length",
     apex |-> "minimum_size", markov |-> "maximum_length",
     fruit |-> "max_age", leaf |-> "maturation"]

\* the stores a caller makes into the object of a slot: an attribute of a
\* group instance, an item of a dict
Stores(slot) ==
    IF slot[2] # "" THEN {<<"extra", PyInt("42")>>}
    ELSE IF slot[1] \in DOMAIN StoredField
    THEN {<<StoredField[slot[1]],
            OtherValue(Defaults(slot[1])[StoredField[slot[1]]])>>}
    ELSE {}

Total(n) ==
    LET sum[S \in SUBSET DOMAIN n] ==
            IF S = {} THEN 0
            ELSE LET x == CHOOSE y \in S : TRUE IN n[x] + sum[S \ {x}]
    IN  sum[DOMAIN n]

\* r.<g>.<f> = v, or r.<g>.<f>[key] = v: a store through root r's reference
IdentityMutate ==
    /\ Total(nMut) < MaxMutations
    /\ \E r \in DOMAIN roots :
         \E slot \in Slots :
           \E st \in Stores(slot) :
               /\ heap' = [heap EXCEPT ![roots[r][slot]] =
                               Store(@, st[1], st[2])]
               /\ nMut' = [nMut EXCEPT ![r] = @ + 1]
    /\ UNCHANGED <<roots, nextId>>
    /\ UNCHANGED <<markovVars, optionsVars, internodeVars>>

InitIdentity == MarkovIdle /\ OptionsIdle /\ IdentityIdle /\ InternodeIdle

NextIdentity == IdentityConstruct \/ IdentityMutate

SpecIdentity == InitIdentity /\ [][NextIdentity]_vars

\* C6: two all-defaults roots share no mutable default sub-value (group
\* instance, input.lpy_files, events.* mapping, markov.terminal_fate), so
\* whatever is stored through one root, the other root's values stay the
\* defaults.
C6_DefaultsIndependent ==
    \A r1 \in DOMAIN roots :
        /\ \A s1, s2 \in Slots : s1 # s2 => roots[r1][s1] # roots[r1][s2]
        /\ \A r2 \in DOMAIN roots \ {r1} :
              \A s1, s2 \in Slots : roots[r1][s1] # roots[r2][s2]
        /\ nMut[r1] = 0 =>
              \A slot \in Slots : heap[roots[r1][slot]] = DefaultContent(slot)

\* both roots exist, a's lpy_files and a's general group were stored into,
\* b was left alone
C6_Witness ==
    /\ DOMAIN roots = RootNames
    /\ nMut["a"] = 2 /\ nMut["b"] = 0
    /\ "extra" \in DOMAIN heap[roots["a"][<<"input", "lpy_files">>]]
    /\ heap[roots["a"][<<"general", "">>]].seed = PyInt("42")

----------------------------------------------------------------------------
(* Internode: the growth-rate engine.  Numbers are exact rationals <<n, d>>  *)
(* with d > 0, in lowest terms.                                              *)

RECURSIVE GCD(_, _)
GCD(a, b) == IF b = 0 THEN a ELSE GCD(b, a % b)

Abs(n) == IF n < 0 THEN -n ELSE n

\* the rational n / d (d # 0) in lowest terms
Q(n, d) ==
    LET g == GCD(Abs(n), Abs(d))
        sgn == IF d < 0 THEN -1 ELSE 1
    IN  <<sgn * (n \div g), sgn * (d \div g)>>

QMul(a, b) == Q(a[1] * b[1], a[2] * b[2])
QDiv(a, b) == Q(a[1] * b[2], a[2] * b[1])

\* the literals of __init__
One          == Q(1, 1)
Quarter      == Q(1, 4)
Half         == Q(1, 2)
ThreeQuarter == Q(3, 4)
OneAndHalf   == Q(3, 2)

\* an __init__ whose fallback length was copied from the line above it
InternodeNewFallbackCopied(min_length, elongation_period, plastochron, max_length) ==
    [_min_length |-> min_length,
     _plastochron |-> plastochron,
     _elongation_period |-> elongation_period,
     _max_length |-> max_length,
     _final_none |-> QDiv(max_length, OneAndHalf),
     _final_dormant_start |-> QDiv(QMul(Quarter, max_length), OneAndHalf),
     _final_small |-> QDiv(QMul(Half, max_length), OneAndHalf),
     _final_diffuse |-> QDiv(max_length, OneAndHalf),
     _final_medium |-> QDiv(QMul(ThreeQuarter, max_length), OneAndHalf),
     _final_floral |-> QDiv(QMul(Half, max_length), OneAndHalf),
     _final_dormant_end |-> QDiv(QMul(Quarter, max_length), OneAndHalf),
     _final_else |-> QDiv(QMul(Half, max_length), OneAndHalf)]

\* Internode.__init__
InternodeNew(min_length, elongation_period, plastochron, max_length) ==
    [_min_length |-> min_length,
     _plastochron |-> plastochron,
     _elongation_period |-> elongation_period,
     _max_length |-> max_length,
     _final_none |-> QDiv(max_length, OneAndHalf),
     _final_dormant_start |-> QDiv(QMul(Quarter, max_length), OneAndHalf),
     _final_small |-> QDiv(QMul(Half, max_length), OneAndHalf),
     _final_diffuse |-> QDiv(max_length, OneAndHalf),
     _final_medium |-> QDiv(QMul(ThreeQuarter, max_length), OneAndHalf),
     _final_floral |-> QDiv(QMul(Half, max_length), OneAndHalf),
     _final_dormant_end |-> QDiv(QMul(Quarter, max_length), OneAndHalf),
     _final_else |-> QDiv(QMul(Quarter, max_length), OneAndHalf)]

\* Internode.growth_rate: the value returned
GrowthRate(self, uzone) ==
    IF uzone.t = "None" THEN QDiv(self._final_none, self._elongation_period)
    ELSE IF PyEq(uzone, PyStr("dormant_start"))
    THEN QDiv(self._final_dormant_start, self._elongation_period)
    ELSE IF PyEq(uzone, PyStr("small"))
    THEN QDiv(self._final_small, self._elongation_period)
    ELSE IF PyEq(uzone, PyStr("diffuse"))
    THEN QDiv(self._final_diffuse, self._elongation_period)
    ELSE IF PyEq(uzone, PyStr("medium"))
    THEN QDiv(self._final_medium, self._elongation_period)
    ELSE IF PyEq(uzone, PyStr("floral"))
    THEN QDiv(self._final_floral, self._elongation_period)
    ELSE IF PyEq(uzone, PyStr("dormant_end"))
    THEN QDiv(self._final_dormant_end, self._elongation_period)
    ELSE QDiv(self._final_else, self._elongation_period)

\* a growth_rate that shortens the remaining elongation period as it goes
GrowthRateSelfAgeing(self, uzone) ==
    [self EXCEPT !._elongation_period = QMul(@, Half)]

\* Internode.growth_rate: the instance after the call (nothing is assigned)
GrowthRateSelf(self, uzone) == self

\* the values engines are constructed with, all strictly positive
MaxLengths   == {Q(3, 100), Q(3, 2), Q(1, 1)}
Periods      == {Q(10, 1), Q(1, 2), Q(3, 1)}
MinLengths   == {Q(1, 10000), Q(1, 1)}
Plastochrons == {Q(3, 1), Q(1, 1)}

\* the zone labels asked for: None, the six named ones, and others
Zones ==
    {PyNone, PyStr("dormant_start"), PyStr("small"), PyStr("diffuse"),
     PyStr("medium"), PyStr("floral"), PyStr("dormant_end"),
     PyStr("unrecognized_label"), PyStr("Small")}

\* no growth_rate call yet
NoRate == [zone |-> PyNone, called |-> FALSE, value |-> Q(0, 1)]

\* Internode(min_length, elongation_period, plastochron, max_length)
InternodeConstruct ==
    /\ engine = Empty
    /\ \E mn \in MinLengths, ep \in Periods, pl \in Plastochrons,
          mx \in MaxLengths :
           /\ engine' = InternodeNew(mn, ep, pl, mx)
           /\ seen' = [init |-> InternodeNew(mn, ep, pl, mx), first |-> Empty]
    /\ UNCHANGED res
    /\ UNCHANGED <<markovVars, optionsVars, identityVars>>

\* engine.growth_rate(zone)
InternodeGrowthRate ==
    /\ engine # Empty
    /\ \E zone \in Zones :
         /\ res' = [zone |-> zone, called |-> TRUE,
                    value |-> GrowthRate(engine, zone)]
         /\ engine' = GrowthRateSelf(engine, zone)
         /\ seen' = IF zone \in DOMAIN seen.first THEN seen
                    ELSE [seen EXCEPT !.first =
                              Store(@, zone, GrowthRate(engine, zone))]
    /\ UNCHANGED <<markovVars, optionsVars, identityVars>>

InternodeStart ==
    /\ engine = Empty /\ res = NoRate /\ seen = Empty

InitInternode == MarkovIdle /\ OptionsIdle /\ IdentityIdle /\ InternodeStart

NextInternode == InternodeConstruct \/ InternodeGrowthRate

SpecInternode == InitInternode /\ [][NextInternode]_vars

\* the fraction the zone's terminal length is of max_length / 1.5
ZoneFraction(zone) ==
    CASE zone = PyNone -> One
      [] zone = PyStr("dormant_start") -> Quarter
      [] zone = PyStr("small") -> Half
      [] zone = PyStr("diffuse") -> One
      [] zone = PyStr("medium") -> ThreeQuarter
      [] zone = PyStr("floral") -> Half
      [] zone = PyStr("dormant_end") -> Quarter
      [] OTHER -> Quarter

\* C7: growth_rate(zone) = f(zone) * (M / 1.5) / P for an engine built with
\* max_length M and elongation_period P, with f as documented, whatever the
\* label, min_length and plastochron are.
C7_GrowthRateFormula ==
    res.called =>
        res.value = QDiv(QMul(ZoneFraction(res.zone),
                              QDiv(seen.init._max_length, OneAndHalf)),
                         seen.init._elongation_period)

\* the documented example: max_length 0.03, period 10, an unrecognized label
\* gives 0.0005
C7_Witness ==
    /\ res.called
    /\ res.zone = PyStr("unrecognized_label")
    /\ engine._max_length = Q(3, 100)
    /\ engine._elongation_period = Q(10, 1)
    /\ res.value = Q(5, 10000)

\* C10: growth_rate calls leave the four construction values and the eight
\* terminal-length constants as construction set them, and a label gets the
\* same value at every call.
C10_NoRuntimeState ==
    engine # Empty =>
        /\ engine = seen.init
        /\ res.called =>
              /\ res.zone \in DOMAIN seen.first
              /\ res.value = seen.first[res.zone]

\* growth_rate has been called with at least five different labels
C10_Witness ==
    /\ res.called
    /\ Cardinality(DOMAIN seen.first) >= 5
    /\ res.zone = PyStr("medium")
    /\ engine._plastochron = Q(1, 1)

============================================================================
